---------------------------- MODULE Spec2Model ----------------------------
(***************************************************************************)
(* mercurium: a source-based package manager.                              *)
(*                                                                         *)
(* The model covers the package store (two redb tables, ALL_PKGS and       *)
(* INSTALLED_PKGS, holding DbPackage wire records), the record model       *)
(* (Package, PackageFile, Installed), the payload (add_pkg, add_pkgfile)   *)
(* and the installation pipeline (Payload::install), together with the     *)
(* add and remove commands of main.rs.  One process invocation is one      *)
(* command; pc = "done" is the state a command ends in, pc = "idle" the      *)
(* state between two invocations.                                          *)
(***************************************************************************)
EXTENDS Integers, Sequences, FiniteSets, TLC

VARIABLES
    all_pkgs,        \* table ALL_PKGS: name -> DbPackage
    installed_pkgs,  \* table INSTALLED_PKGS: name -> DbPackage
    pc,              \* position of the running command
    args,            \* the command's remaining arguments (names or package files)
    packages,        \* Payload.packages: a set of PayloadPackage
    candidates,      \* Payload.packages as Payload::install received it
    todo,            \* write_db: the payload entries its loop has not visited yet
    cur,             \* write_db: the entry between its modify and its get/set
    fx,              \* what the pipeline stages of this run have done so far
    outcome,         \* how the last command ended
    start,           \* the two tables as they were when the command started
    call             \* the pure function application under check

vars == <<all_pkgs, installed_pkgs, pc, args, packages, candidates, todo, cur, fx,
          outcome, start, call>>

----------------------------------------------------------------------------
(* Bounds of the model *)

\* versions are 1..MaxVer
MaxVer == 2
\* the versions a pure function is applied to are 1..MaxCallVer
MaxCallVer == 4
\* a command takes at most MaxArgs arguments
MaxArgs == 2

Names == {"a", "b"}
Versions == 1..MaxVer

----------------------------------------------------------------------------
(* Record model: pkg.rs, pkgfile.rs *)

\* Option<T>: None is the empty sequence, Some(x) the one-element sequence
None == <<>>
Some(x) == <<x>>
is_some(o) == Len(o) = 1
unwrap(o) == o[1]

\* enum Installed
False == [tag |-> "False", ver |-> 0]
Automatically(v) == [tag |-> "Automatically", ver |-> v]
Manually(v) == [tag |-> "Manually", ver |-> v]
InstalledValues ==
    {False} \cup {Automatically(v) : v \in Versions} \cup {Manually(v) : v \in Versions}

\* a slip of Installed::update: the incoming state always wins
update_takes_new(old, new) == new

\* a slip of Installed::update: a manual install survives an uninstall
update_keeps_manual(old, new) ==
    IF old.tag = "Manually" THEN Manually(IF new.tag = "False" THEN old.ver ELSE new.ver)
    ELSE new

\* Installed::update(self, new)
update(old, new) ==
    IF old.tag \in {"Automatically", "False"} THEN new
    ELSE IF new.tag \in {"Automatically", "Manually"} THEN Manually(new.ver)
    ELSE False

\* Package::from_file(file, local)
from_file(file, local) == [info |-> file.info, source |-> file.source, local |-> local]

\* From<Package> for PackageFile
into_file(pkg) == [info |-> pkg.info, source |-> pkg.source]

----------------------------------------------------------------------------
(* The package definition files a user can hand to add / install --local. *)
(* "b" declares the dependency "a"; "a" declares a checksum, "b" a build   *)
(* command.                                                                *)

DepsOf(n) == IF n = "b" THEN Some(<<"a">>) ELSE None
ChecksumOf(n) == IF n = "a" THEN Some("sha512") ELSE None
BuildOf(n) == IF n = "b" THEN Some("make") ELSE None

PkgFile(n, v) ==
    [info |-> [name |-> n, version |-> v, dependencies |-> DepsOf(n)],
     source |-> [checksum |-> ChecksumOf(n), build |-> BuildOf(n)]]

PkgFiles == {PkgFile(n, v) : n \in Names, v \in Versions}

\* argument lists of a command: 1..MaxArgs elements of S
ArgLists(S) == UNION {[1..k -> S] : k \in 1..MaxArgs}

----------------------------------------------------------------------------
(* Package store: db.rs *)

string_to_option(s) == IF s = "" THEN None ELSE Some(s)
vec_to_option(s) == IF s = <<>> THEN None ELSE Some(s)
unwrap_or_default(o, default) == IF is_some(o) THEN unwrap(o) ELSE default

\* what Version::to_string prints for the versions 0.0.0 to 9.0.0
VersionStrings ==
    <<"0.0.0", "1.0.0", "2.0.0", "3.0.0", "4.0.0",
      "5.0.0", "6.0.0", "7.0.0", "8.0.0", "9.0.0">>

\* Version::to_string of the version v.0.0
version_to_string(v) == VersionStrings[v + 1]

\* whether Version::from_str accepts the string (as a version v.0.0)
version_is_valid(s) == \E v \in 0..9 : VersionStrings[v + 1] = s

\* Version::from_str(&version).expect(..) of a valid string
version_from_str(s) == CHOOSE v \in 0..9 : VersionStrings[v + 1] = s

\* From<DbPackage> for Package
from_db(value) ==
    [info |-> [name |-> value.name,
               version |-> version_from_str(value.version),
               dependencies |-> vec_to_option(value.dependencies)],
     source |-> [checksum |-> string_to_option(value.checksum),
                 build |-> string_to_option(value.build)],
     local |-> [installed |-> value.installed, added |-> value.added]]

\* From<Package> for DbPackage
to_db(value) ==
    [name |-> value.info.name,
     version |-> version_to_string(value.info.version),
     dependencies |-> unwrap_or_default(value.info.dependencies, <<>>),
     checksum |-> unwrap_or_default(value.source.checksum, ""),
     build |-> unwrap_or_default(value.source.build, ""),
     installed |-> value.local.installed,
     added |-> value.local.added]

EmptyTable == [k \in {} |-> 0]

\* Db::get(table, key)
get(table, key) == IF key \in DOMAIN table THEN Some(from_db(table[key])) ELSE None

\* a slip of get_iter: the keys the table does not hold get no slot
get_iter_found(table, keys) ==
    LET found == SelectSeq(keys, LAMBDA k : k \in DOMAIN table)
    IN  [i \in DOMAIN found |-> get(table, found[i])]

\* one slot of Db::get_iter(table, keys), which maps get over the keys in order
get_iter(table, keys) == [i \in DOMAIN keys |-> get(table, keys[i])]

\* the table after Db::set(table, key, value)
set(table, key, value) ==
    [k \in DOMAIN table \cup {key} |-> IF k = key THEN to_db(value) ELSE table[k]]

\* a slip of remove: the record is read and left in the table
remove_reads(table, key) == table

\* the table after Db::remove(table, key)
remove(table, key) == [k \in DOMAIN table \ {key} |-> table[k]]

\* the table after Db::modify(table, key, func), where result = func(get(table, key)):
\* the key is removed, and inserted again when func returned Some
modify(table, key, result) ==
    IF is_some(result) THEN set(remove(table, key), key, unwrap(result))
    ELSE remove(table, key)


----------------------------------------------------------------------------
(* Payload: payload.rs *)

\* struct PayloadPackage
PayloadPackage(file, selected, added) ==
    [file |-> file, manually_selected |-> selected, manually_added |-> added]

\* a slip of the dependency loop: dependencies are inserted as selected
add_deps_selected(table, payload, deps) ==
    IF ~is_some(deps) THEN [err |-> "none", packages |-> payload]
    ELSE LET pkgs == get_iter(table, unwrap(deps))
         IN  IF \E i \in DOMAIN pkgs : ~is_some(pkgs[i])
             THEN [err |-> "dependency_not_found", packages |-> payload]
             ELSE [err |-> "none",
                   packages |-> payload \cup
                       {PayloadPackage(into_file(unwrap(pkgs[i])), TRUE, FALSE) :
                            i \in DOMAIN pkgs}]

\* the dependency loop shared by add_pkg and add_pkgfile: every declared
\* dependency is looked up in ALL_PKGS and inserted with both flags false;
\* a missing one ends the process
add_deps(table, payload, deps) ==
    IF ~is_some(deps) THEN [err |-> "none", packages |-> payload]
    ELSE LET pkgs == get_iter(table, unwrap(deps))
         IN  IF \E i \in DOMAIN pkgs : ~is_some(pkgs[i])
             THEN [err |-> "dependency_not_found", packages |-> payload]
             ELSE [err |-> "none",
                   packages |-> payload \cup
                       {PayloadPackage(into_file(unwrap(pkgs[i])), FALSE, FALSE) :
                            i \in DOMAIN pkgs}]

\* a slip of add_pkg: the dependencies of the dependencies are added too
add_pkg_deep(table, payload, name) ==
    LET pkg == get(table, name)
    IN  IF ~is_some(pkg) THEN [err |-> "package_not_found", packages |-> payload]
        ELSE LET with_deps == add_deps(table, payload, unwrap(pkg).info.dependencies)
                 deeper == {into_file(unwrap(get(table, d))) :
                               d \in {e \in DOMAIN table :
                                         \E p \in with_deps.packages :
                                            LET ds == p.file.info.dependencies
                                            IN  is_some(ds) /\ \E i \in DOMAIN unwrap(ds) :
                                                   unwrap(ds)[i] = e}}
             IN  IF with_deps.err # "none" THEN with_deps
                 ELSE [err |-> "none",
                       packages |-> with_deps.packages
                           \cup {PayloadPackage(f, FALSE, FALSE) : f \in deeper}
                           \cup {PayloadPackage(into_file(unwrap(pkg)), TRUE, FALSE)}]

\* Payload::add_pkg(&mut self, pkg)
add_pkg(table, payload, name) ==
    LET pkg == get(table, name)
    IN  IF ~is_some(pkg) THEN [err |-> "package_not_found", packages |-> payload]
        ELSE LET with_deps == add_deps(table, payload, unwrap(pkg).info.dependencies)
             IN  IF with_deps.err # "none" THEN with_deps
                 ELSE [err |-> "none",
                       packages |-> with_deps.packages \cup
                           {PayloadPackage(into_file(unwrap(pkg)), TRUE, FALSE)}]

\* Payload::add_pkgfile(&mut self, pkgfile)
add_pkgfile(table, payload, pkgfile) ==
    LET with_deps == add_deps(table, payload, pkgfile.info.dependencies)
    IN  IF with_deps.err # "none" THEN with_deps
        ELSE [err |-> "none",
              packages |-> with_deps.packages \cup {PayloadPackage(pkgfile, TRUE, TRUE)}]

\* a slip of the staleness filter: a candidate of the installed version is kept
retain_strict(payload, pkgs) ==
    {p \in payload :
        ~\E o \in pkgs : is_some(o) /\ unwrap(o).info.version > p.file.info.version}

\* check_install: self.packages.retain(..) against the records get_iter found
\* in INSTALLED_PKGS for the names of the payload
retain(payload, pkgs) ==
    {p \in payload :
        ~\E o \in pkgs : is_some(o) /\ unwrap(o).info.version >= p.file.info.version}

\* the records check_install fetches: one get per payload entry's name
installed_of(table, payload) == {get(table, p.file.info.name) : p \in payload}

\* write_db: the state a payload entry asks for
installed_new(p) ==
    IF p.manually_selected THEN Manually(p.file.info.version)
    ELSE Automatically(p.file.info.version)

\* a slip of write_db: the state the entry asks for replaces the old one
write_db_func_replaces(p, pkg) ==
    IF is_some(pkg)
    THEN Some([unwrap(pkg) EXCEPT
                  !.local = [installed |-> installed_new(p), added |-> p.manually_added]])
    ELSE Some(from_file(p.file, [installed |-> installed_new(p),
                                 added |-> p.manually_added]))

\* write_db: the closure handed to db.modify(INSTALLED_PKGS, name, ..)
write_db_func(p, pkg) ==
    LET added == p.manually_added
    IN   IF is_some(pkg)
              THEN Some([unwrap(pkg) EXCEPT
                      !.local = [installed |-> update(unwrap(pkg).local.installed,
                                                      installed_new(p)),
                            added |-> p.manually_added \/ added]])
         ELSE Some(from_file(p.file, [installed |-> installed_new(p),
                                 added |-> p.manually_added]))

\* a slip of add_to_db: the local state of a known record is kept as it is
add_to_db_func_kept(file, pkg) ==
    LET local == IF is_some(pkg) THEN unwrap(pkg).local
                 ELSE [installed |-> False, added |-> TRUE]
    IN  Some(from_file(file, local))

\* a slip of add_to_db: the record is always created afresh
add_to_db_func_fresh(file, pkg) ==
    Some(from_file(file, [installed |-> False, added |-> TRUE]))

\* add_to_db: the closure handed to db.modify(ALL_PKGS, name, ..)
add_to_db_func(file, pkg) ==
    LET local == IF is_some(pkg) THEN [unwrap(pkg).local EXCEPT !.added = TRUE]
                 ELSE [installed |-> False, added |-> TRUE]
    IN  Some(from_file(file, local))

\* a slip of remove: the closure returns the record as it was
remove_func_keeps(val) == Some(unwrap(val))

\* a slip of remove: the closure returns None and the record is deleted
remove_func_erases(val) == None

\* remove: the closure handed to db.modify(ALL_PKGS, name, ..); val.unwrap()
\* panics on an unknown name, so it is applied to a known one only
remove_func(val) == Some([unwrap(val) EXCEPT !.local.installed = False])

----------------------------------------------------------------------------
(* State *)

Tables == [all |-> all_pkgs, installed |-> installed_pkgs]

\* fx: dl maps each payload entry to the state of its download task, files
\* maps each tarball path this run wrote to what it holds; sha, untar, built
\* and ran are the entries whose checksum was computed, whose tarball was
\* unpacked, whose build command ran and whose install command ran
NoFx ==
    [dl |-> EmptyTable, files |-> EmptyTable,
     sha |-> {}, untar |-> {}, built |-> {}, ran |-> {}]

\* how one download task resolves. download_source returns Ok after writing
\* the whole response body, whatever the status of the response: "ok" is a
\* success response with the published tarball, "corrupt" a success response
\* with other bytes. "failed" is a download that failed: a transport error,
\* on which download_source returns Err before the file is created
\* (reqwest::get, File::create) or while the body is streamed into it, or a
\* non-success response, whose body is written like any other.
DlOutcomes == {"ok", "corrupt", "failed"}

\* a response without a Content-Length makes content_length().unwrap() panic
\* before the file is created: "no_length" is such a success response,
\* "failed_no_length" such a non-success response
DlPanics == {"no_length", "failed_no_length"}

\* the outcomes in which the download of a package failed: a transport error
\* or a non-success response
DlFailed == {"failed", "failed_no_length"}

NoCall == [op |-> "none"]

Init ==
    /\ all_pkgs = EmptyTable
    /\ installed_pkgs = EmptyTable
    /\ pc = "idle"
    /\ args = <<>>
    /\ packages = {}
    /\ candidates = {}
    /\ todo = {}
    /\ cur = None
    /\ fx = NoFx
    /\ outcome = "none"
    /\ start = [all |-> EmptyTable, installed |-> EmptyTable]
    /\ call = NoCall

\* the exit code of each way a command ends: exit_with_message's code, 0 when
\* main returns, and a panic for a failed assert, unwrap or expect
exit_code(how) ==
    CASE how \in {"ok", "up_to_date", "declined"} -> "OK"
      [] how \in {"package_not_found", "dependency_not_found"} -> "DATAERR"
      [] how = "invalid_checksum" -> "SOFTWARE"
      [] OTHER -> "panic"

\* the process ends: exit_with_message, a panic, or main returning
Exit(how) ==
    /\ pc' = "done"
    /\ outcome' = how

\* the process is gone: nothing of it is left but the two tables on disk
Idle ==
    /\ pc = "done"
    /\ pc' = "idle"
    /\ args' = <<>>
    /\ packages' = {}
    /\ candidates' = {}
    /\ todo' = {}
    /\ cur' = None
    /\ fx' = NoFx
    /\ outcome' = "none"
    /\ start' = Tables
    /\ UNCHANGED <<all_pkgs, installed_pkgs, call>>

\* a new process starts a command
Begin(first, arguments) ==
    /\ pc = "idle"
    /\ pc' = first
    /\ args' = arguments
    /\ outcome' = "running"
    /\ UNCHANGED <<all_pkgs, installed_pkgs, packages, todo, cur, fx, candidates, start, call>>

----------------------------------------------------------------------------
(* Commands: main.rs *)

\* mercurium add <pkgfiles>
Add == \E files \in ArgLists(PkgFiles) : Begin("add_to_db", files)

\* PackageFile::add_to_db for the next file of the add command
AddToDb ==
    /\ pc = "add_to_db"
    /\ LET file == Head(args)
           name == file.info.name
       IN  all_pkgs' = modify(all_pkgs, name, add_to_db_func(file, get(all_pkgs, name)))
    /\ args' = Tail(args)
    /\ IF Tail(args) = <<>> THEN Exit("ok") ELSE UNCHANGED <<pc, outcome>>
    /\ UNCHANGED <<installed_pkgs, packages, todo, cur, fx, candidates, start, call>>

\* mercurium remove <names>
Remove == \E names \in ArgLists(Names) : Begin("remove_modify", names)

\* a slip of remove: the closure passes an unknown name through (val.map
\* instead of val.unwrap) and the command goes on to the installed table
RemoveModify_lenient ==
    /\ pc = "remove_modify"
    /\ LET name == Head(args)
           val == get(all_pkgs, name)
       IN  all_pkgs' = IF is_some(val) THEN modify(all_pkgs, name, remove_func(val))
                       ELSE all_pkgs
    /\ pc' = "remove_remove"
    /\ UNCHANGED <<outcome, installed_pkgs, args, packages, todo, cur, fx, candidates, start, call>>

\* remove: db.modify(ALL_PKGS, name, ..); the closure panics on an unknown
\* name and the write transaction is dropped uncommitted
RemoveModify ==
    /\ pc = "remove_modify"
    /\ LET name == Head(args)
           val == get(all_pkgs, name)
       IN  IF is_some(val)
           THEN /\ all_pkgs' = modify(all_pkgs, name, remove_func(val))
                /\ pc' = "remove_remove"
                /\ UNCHANGED outcome
           ELSE /\ Exit("panic")
                /\ UNCHANGED all_pkgs
    /\ UNCHANGED <<installed_pkgs, args, packages, todo, cur, fx, candidates, start, call>>

\* a slip of remove: the installed-table entry is written back as not
\* installed instead of being removed
RemoveRemove_marks ==
    /\ pc = "remove_remove"
    /\ installed_pkgs' = modify(installed_pkgs, Head(args),
                                IF is_some(get(installed_pkgs, Head(args)))
                                THEN remove_func(get(installed_pkgs, Head(args)))
                                ELSE None)
    /\ args' = Tail(args)
    /\ IF Tail(args) = <<>> THEN Exit("ok")
       ELSE pc' = "remove_modify" /\ UNCHANGED outcome
    /\ UNCHANGED <<all_pkgs, packages, todo, cur, fx, candidates, start, call>>

\* remove: db.remove(INSTALLED_PKGS, name)
RemoveRemove ==
    /\ pc = "remove_remove"
    /\ installed_pkgs' = remove(installed_pkgs, Head(args))
    /\ args' = Tail(args)
    /\ IF Tail(args) = <<>> THEN Exit("ok")
       ELSE pc' = "remove_modify" /\ UNCHANGED outcome
    /\ UNCHANGED <<all_pkgs, packages, todo, cur, fx, candidates, start, call>>

\* mercurium install <names>
Install == \E names \in ArgLists(Names) : Begin("add_pkg", names)

\* mercurium install --local <pkgfiles>
InstallLocal == \E files \in ArgLists(PkgFiles) : Begin("add_pkgfile", files)

\* install / install_local: the next payload.add_pkg or payload.add_pkgfile
\* call, and payload.install() after the last one
AddToPayload ==
    /\ pc \in {"add_pkg", "add_pkgfile"}
    /\ LET r == IF pc = "add_pkg" THEN add_pkg(all_pkgs, packages, Head(args))
                ELSE add_pkgfile(all_pkgs, packages, Head(args))
       IN  /\ packages' = r.packages
           /\ IF r.err # "none" THEN Exit(r.err)
              ELSE /\ pc' = IF Tail(args) = <<>> THEN "check_install" ELSE pc
                   /\ UNCHANGED outcome
    /\ args' = Tail(args)
    /\ UNCHANGED <<all_pkgs, installed_pkgs, todo, cur, fx, candidates, start, call>>

----------------------------------------------------------------------------
(* Installation pipeline: Payload::install *)

\* a slip of check_install: an emptied payload goes on to the prompt
CheckInstall_no_exit ==
    /\ pc = "check_install"
    /\ candidates' = packages
    /\ packages' = retain(packages, installed_of(installed_pkgs, packages))
    /\ pc' = "confirm"
    /\ UNCHANGED <<all_pkgs, installed_pkgs, args, todo, cur, fx, outcome, start, call>>

\* check_install, up to the prompt: the staleness filter
CheckInstall ==
    /\ pc = "check_install"
    /\ candidates' = packages
    /\ packages' = retain(packages, installed_of(installed_pkgs, packages))
    /\ IF packages' = {} THEN Exit("up_to_date")
       ELSE pc' = "confirm" /\ UNCHANGED outcome
    /\ UNCHANGED <<all_pkgs, installed_pkgs, args, todo, cur, fx, start, call>>

\* a slip of check_install: declining prints the message and goes on
Confirm_no_exit ==
    /\ pc = "confirm"
    /\ \E ans \in {"yes", "no", "error"} :
          CASE ans = "yes" -> pc' = "download_pkgs" /\ UNCHANGED outcome
            [] ans = "no" -> pc' = "download_pkgs" /\ outcome' = "declined"
            [] OTHER -> Exit("prompt_error")
    /\ UNCHANGED <<all_pkgs, installed_pkgs, args, packages, todo, cur, fx, candidates, start, call>>

\* check_install: Confirm::prompt and what follows it
Confirm ==
    /\ pc = "confirm"
    /\ \E ans \in {"yes", "no", "error"} :
          CASE ans = "yes" -> pc' = "download_pkgs" /\ UNCHANGED outcome
            [] ans = "no" -> Exit("declined")
            [] OTHER -> Exit("prompt_error")
    /\ UNCHANGED <<all_pkgs, installed_pkgs, args, packages, todo, cur, fx, candidates, start, call>>

\* the tarball path of a payload entry: sources/<name>_<version>.tar.gz
tar_name(p) == <<p.file.info.name, p.file.info.version>>

\* download_pkgs: one download_source future per payload entry is pushed
DownloadPkgs ==
    /\ pc = "download_pkgs"
    /\ fx' = [fx EXCEPT !.dl = [p \in packages |-> "pending"]]
    /\ pc' = "downloading"
    /\ UNCHANGED <<all_pkgs, installed_pkgs, args, packages, todo, cur, outcome,
                   candidates, start, call>>

\* the bytes a download task may stream into its file: the published tarball,
\* other bytes (a different or truncated body, the body of an error
\* response), or none when the task fails before File::create
bytes(how) ==
    CASE how = "ok" -> {"ok"}
      [] how = "corrupt" -> {"corrupt"}
      [] OTHER -> {"none", "corrupt"}

\* what the file at path may hold when a task resolves: the task's bytes, or,
\* when another task of the run wrote different bytes to the same path, a
\* mixture of the two (both tasks write through their own handle)
left(files, path, how) ==
    bytes(how) \cup
    (IF path \in DOMAIN files /\ bytes(how) \ {"none", files[path]} # {}
     THEN {"corrupt"} ELSE {})

\* the files after a task left content at path
written(files, path, content) ==
    IF content = "none" THEN files
    ELSE [f \in DOMAIN files \cup {path} |-> IF f = path THEN content ELSE files[f]]

\* download_source: one pending future resolves, or panics in
\* content_length().unwrap(), which ends the process with the other futures
\* still pending
DownloadSource ==
    /\ pc = "downloading"
    /\ \E p \in packages :
          /\ fx.dl[p] = "pending"
          /\ \/ \E how \in DlOutcomes :
                   \E content \in left(fx.files, tar_name(p), how) :
                       /\ fx' = [fx EXCEPT !.dl[p] = how,
                                           !.files = written(fx.files, tar_name(p), content)]
                       /\ UNCHANGED <<pc, outcome>>
             \/ \E how \in DlPanics :
                   /\ fx' = [fx EXCEPT !.dl[p] = how]
                   /\ Exit("panic")
    /\ UNCHANGED <<all_pkgs, installed_pkgs, args, packages, todo, cur, candidates, start, call>>

\* a slip of download_pkgs: it returns while futures are still pending
DownloadJoin_no_wait ==
    /\ pc = "downloading"
    /\ pc' = "check_sha512_pkgs"
    /\ UNCHANGED <<all_pkgs, installed_pkgs, args, packages, todo, cur, fx, outcome,
                   candidates, start, call>>

\* download_pkgs: futures.collect() has every result, drops them and returns Ok
DownloadJoin ==
    /\ pc = "downloading"
    /\ \A p \in packages : fx.dl[p] # "pending"
    /\ pc' = "check_sha512_pkgs"
    /\ UNCHANGED <<all_pkgs, installed_pkgs, args, packages, todo, cur, fx, outcome,
                   candidates, start, call>>

\* a stage loop over the payload set: either every entry passes, or the loop
\* ends at an entry that fails after some of the passing entries were visited
\* (the set's iteration order is arbitrary)
StageRuns(passing, failing) ==
    {[visited |-> packages, failed |-> None]  : x \in
         IF passing = packages THEN {0} ELSE {}}
    \cup
    UNION {{[visited |-> S \cup {p}, failed |-> Some(p)] :
                S \in SUBSET (passing \ {p})} : p \in failing}

has_file(p) == tar_name(p) \in DOMAIN fx.files

\* a slip of check_sha512_pkgs: the result of the comparison is not looked at
CheckSha512Pkgs_no_gate ==
    /\ pc = "check_sha512_pkgs"
    /\ LET declared == {p \in packages : is_some(p.file.source.checksum)}
           failing == {p \in declared : ~has_file(p)}
       IN  \E run \in StageRuns(packages \ failing, failing) :
              /\ fx' = [fx EXCEPT !.sha = {p \in run.visited \cap declared : has_file(p)}]
              /\ IF is_some(run.failed) THEN Exit("io_error")
                 ELSE pc' = "decompress_pkgs" /\ UNCHANGED outcome
    /\ UNCHANGED <<all_pkgs, installed_pkgs, args, packages, todo, cur, candidates, start, call>>

\* a slip of check_sha512_pkgs: an entry that declares no checksum is an error
CheckSha512Pkgs_required ==
    /\ pc = "check_sha512_pkgs"
    /\ LET declared == {p \in packages : is_some(p.file.source.checksum)}
           failing == {p \in packages :
                          p \notin declared \/ ~has_file(p) \/ fx.files[tar_name(p)] # "ok"}
       IN  \E run \in StageRuns(packages \ failing, failing) :
              /\ fx' = [fx EXCEPT !.sha = {p \in run.visited \cap declared : has_file(p)}]
              /\ IF is_some(run.failed)
                 THEN Exit(IF has_file(unwrap(run.failed)) THEN "invalid_checksum"
                           ELSE "io_error")
                 ELSE pc' = "decompress_pkgs" /\ UNCHANGED outcome
    /\ UNCHANGED <<all_pkgs, installed_pkgs, args, packages, todo, cur, candidates, start, call>>

\* check_sha512_pkgs: a declared checksum is compared with the file's digest;
\* a missing file is an io error, a mismatch exits
CheckSha512Pkgs ==
    /\ pc = "check_sha512_pkgs"
    /\ LET declared == {p \in packages : is_some(p.file.source.checksum)}
           failing == {p \in declared : ~has_file(p) \/ fx.files[tar_name(p)] # "ok"}
       IN  \E run \in StageRuns(packages \ failing, failing) :
              /\ fx' = [fx EXCEPT !.sha = {p \in run.visited \cap declared : has_file(p)}]
              /\ IF is_some(run.failed)
                 THEN Exit(IF has_file(unwrap(run.failed)) THEN "invalid_checksum"
                           ELSE "io_error")
                 ELSE pc' = "decompress_pkgs" /\ UNCHANGED outcome
    /\ UNCHANGED <<all_pkgs, installed_pkgs, args, packages, todo, cur, candidates, start, call>>

\* decompress_pkgs: a missing file fails, the published tarball unpacks, other
\* bytes may or may not unpack
DecompressPkgs ==
    /\ pc = "decompress_pkgs"
    /\ LET passing == {p \in packages : has_file(p)}
           failing == {p \in packages : ~has_file(p) \/ fx.files[tar_name(p)] # "ok"}
       IN  \E run \in StageRuns(passing, failing) :
              /\ fx' = [fx EXCEPT !.untar = {p \in run.visited : Some(p) # run.failed}]
              /\ IF is_some(run.failed) THEN Exit("io_error")
                 ELSE pc' = "build_pkgs" /\ UNCHANGED outcome
    /\ UNCHANGED <<all_pkgs, installed_pkgs, args, packages, todo, cur, candidates, start, call>>

\* build_pkgs: a declared build command runs; a non-zero exit fails the assert
BuildPkgs ==
    /\ pc = "build_pkgs"
    /\ LET declared == {p \in packages : is_some(p.file.source.build)}
       IN  \E run \in StageRuns(packages, declared) :
              /\ fx' = [fx EXCEPT !.built = run.visited \cap declared]
              /\ IF is_some(run.failed) THEN Exit("build_failed")
                 ELSE pc' = "install_pkgs" /\ UNCHANGED outcome
    /\ UNCHANGED <<all_pkgs, installed_pkgs, args, packages, todo, cur, candidates, start, call>>

\* a slip of install_pkgs: the exit status of the command is not asserted
InstallPkgs_no_assert ==
    /\ pc = "install_pkgs"
    /\ \E run \in StageRuns(packages, packages) :
          /\ fx' = [fx EXCEPT !.ran = run.visited]
          /\ outcome' = IF is_some(run.failed) THEN "install_failed" ELSE outcome
          /\ pc' = "write_db" /\ todo' = packages
    /\ UNCHANGED <<all_pkgs, installed_pkgs, args, packages, cur, candidates, start, call>>

\* install_pkgs: every install command runs; a non-zero exit fails the assert
InstallPkgs ==
    /\ pc = "install_pkgs"
    /\ \E run \in StageRuns(packages, packages) :
          /\ fx' = [fx EXCEPT !.ran = run.visited]
          /\ IF is_some(run.failed) THEN Exit("install_failed") /\ UNCHANGED todo
             ELSE pc' = "write_db" /\ todo' = packages /\ UNCHANGED outcome
    /\ UNCHANGED <<all_pkgs, installed_pkgs, args, packages, cur, candidates, start, call>>

\* write_db: db.modify(INSTALLED_PKGS, name, ..) for the next payload entry
WriteDbModify ==
    /\ pc = "write_db"
    /\ \E p \in todo :
          LET name == p.file.info.name
          IN  /\ installed_pkgs' =
                    modify(installed_pkgs, name,
                           write_db_func(p, get(installed_pkgs, name)))
              /\ cur' = Some(p)
    /\ pc' = "write_db_set"
    /\ UNCHANGED <<all_pkgs, args, packages, todo, fx, outcome, candidates, start, call>>

\* write_db: db.get(INSTALLED_PKGS, name) and db.set(ALL_PKGS, name, pkg)
WriteDbSet ==
    /\ pc = "write_db_set"
    /\ LET p == unwrap(cur)
           name == p.file.info.name
           pkg == get(installed_pkgs, name)
       IN  /\ all_pkgs' = IF is_some(pkg) THEN set(all_pkgs, name, unwrap(pkg))
                          ELSE all_pkgs
           /\ todo' = todo \ {p}
    /\ cur' = None
    /\ IF todo' = {} THEN Exit("ok") ELSE pc' = "write_db" /\ UNCHANGED outcome
    /\ UNCHANGED <<installed_pkgs, args, packages, fx, candidates, start, call>>

\* a slip of the error path: a storage error undoes what the run committed
StorageError_rollback ==
    /\ pc \in {"add_to_db", "remove_modify", "remove_remove", "add_pkg",
               "add_pkgfile", "check_install", "write_db", "write_db_set"}
    /\ Exit("storage_error")
    /\ all_pkgs' = start.all
    /\ installed_pkgs' = start.installed
    /\ UNCHANGED <<args, packages, todo, cur, fx, candidates, start, call>>

\* a storage-layer error in the next database call of the running command:
\* the call's transaction is not committed and the error ends the process
StorageError ==
    /\ pc \in {"add_to_db", "remove_modify", "remove_remove", "add_pkg",
               "add_pkgfile", "check_install", "write_db", "write_db_set"}
    /\ Exit("storage_error")
    /\ UNCHANGED <<all_pkgs, installed_pkgs, args, packages, todo, cur, fx, candidates, start, call>>

Next ==
    \/ Idle
    \/ Add \/ AddToDb
    \/ Remove \/ RemoveModify \/ RemoveRemove
    \/ Install \/ InstallLocal \/ AddToPayload
    \/ CheckInstall \/ Confirm
    \/ DownloadPkgs \/ DownloadSource \/ DownloadJoin
    \/ CheckSha512Pkgs \/ DecompressPkgs \/ BuildPkgs \/ InstallPkgs
    \/ WriteDbModify \/ WriteDbSet

----------------------------------------------------------------------------
(* Installed::update applied to a pair of states *)

CallValues ==
    {False} \cup {Automatically(v) : v \in 1..MaxCallVer}
            \cup {Manually(v) : v \in 1..MaxCallVer}

InitUpdate ==
    /\ all_pkgs = EmptyTable
    /\ installed_pkgs = EmptyTable
    /\ pc = "idle"
    /\ args = <<>>
    /\ packages = {}
    /\ candidates = {}
    /\ todo = {}
    /\ cur = None
    /\ fx = NoFx
    /\ outcome = "none"
    /\ start = [all |-> EmptyTable, installed |-> EmptyTable]
    /\ call \in [op : {"update"}, old : CallValues, new : CallValues, result : {None}]

CallUpdate ==
    /\ call.op = "update"
    /\ call.result = None
    /\ call' = [call EXCEPT !.result = Some(update(call.old, call.new))]
    /\ UNCHANGED <<all_pkgs, installed_pkgs, pc, args, packages, candidates, todo, cur,
                   fx, outcome, start>>

SpecUpdate == InitUpdate /\ [][CallUpdate]_vars

----------------------------------------------------------------------------
(* Payload::add_pkg applied to an empty payload and a catalog of three names *)

Names3 == {"a", "b", "c"}

\* the dependencies a record of name n may declare: none, or one other name
DepChoices(n) == {None} \cup {Some(<<m>>) : m \in Names3 \ {n}}

\* the catalog record of name n declaring the dependencies deps, as
\* add_to_db stores it
ChainRecord(n, deps) ==
    to_db(from_file([info |-> [name |-> n, version |-> MaxVer, dependencies |-> deps],
                     source |-> [checksum |-> None, build |-> None]],
                    [installed |-> False, added |-> TRUE]))

\* every catalog over a subset of the three names
Catalogs ==
    UNION {{[n \in S |-> ChainRecord(n, d[n])] :
               d \in {f \in [S -> UNION {DepChoices(m) : m \in Names3}] :
                          \A n \in S : f[n] \in DepChoices(n)}} :
           S \in SUBSET Names3}

InitAddPkg ==
    /\ all_pkgs = EmptyTable
    /\ installed_pkgs = EmptyTable
    /\ pc = "idle"
    /\ args = <<>>
    /\ packages = {}
    /\ candidates = {}
    /\ todo = {}
    /\ cur = None
    /\ fx = NoFx
    /\ outcome = "none"
    /\ start = [all |-> EmptyTable, installed |-> EmptyTable]
    /\ call \in [op : {"add_pkg"}, table : Catalogs, name : Names3, result : {None}]

CallAddPkg ==
    /\ call.op = "add_pkg"
    /\ call.result = None
    /\ call' = [call EXCEPT !.result = Some(add_pkg(call.table, {}, call.name))]
    /\ UNCHANGED <<all_pkgs, installed_pkgs, pc, args, packages, candidates, todo, cur,
                   fx, outcome, start>>

SpecAddPkg == InitAddPkg /\ [][CallAddPkg]_vars

----------------------------------------------------------------------------
(* The Db implementation for Database, applied to one table *)

MaxKeys == 2

\* the packages handed to the store
DbValues ==
    {from_file(PkgFile(n, MaxVer), [installed |-> i, added |-> TRUE]) :
         n \in Names, i \in {False, Manually(MaxVer)}}

\* the tables over a subset of the names, any record under any key
DbTables == UNION {[S -> {to_db(v) : v \in DbValues}] : S \in SUBSET Names}

KeySeqs == UNION {[1..n -> Names] : n \in 0..MaxKeys}
PairSeqs == UNION {[1..n -> Names \X DbValues] : n \in 0..MaxKeys}

\* the closures handed to modify: one that returns None, one that returns
\* what it was given, the closures of add_to_db and of remove, and one that
\* panics
Closures == {"none", "keep", "add_to_db", "remove", "abort"}

\* val.unwrap() in the closure of remove panics on None
panics(f, val) == f = "abort" \/ (f = "remove" /\ ~is_some(val))

func(f, val) ==
    CASE f = "none" -> None
      [] f = "keep" -> val
      [] f = "add_to_db" -> add_to_db_func(PkgFile("a", MaxVer), val)
      [] f = "remove" -> remove_func(val)

\* write_table.insert(key, value.into()) and write_table.remove(key)
insert_of(key, value) == [w |-> "insert", key |-> key, value |-> value]
remove_of(key) == [w |-> "remove", key |-> key]

apply(table, write) ==
    IF write.w = "insert" THEN set(table, write.key, write.value)
    ELSE remove(table, write.key)

\* the table as the open transaction sees it after its first k writes
RECURSIVE apply_first(_, _, _)
apply_first(table, writes, k) ==
    IF k = 0 THEN table ELSE apply(apply_first(table, writes, k - 1), writes[k])

\* a slip of the transaction: the writes made before the failure stay
transaction_partial(table, writes, fail) ==
    IF fail = 0 THEN [table |-> apply_first(table, writes, Len(writes)), err |-> "none"]
    ELSE [table |-> apply_first(table, writes,
                                IF fail - 1 < Len(writes) THEN fail - 1 ELSE Len(writes)),
          err |-> "err"]

\* begin_write, the writes in order, commit. fail = 0: every step succeeds and
\* commit installs the writes; fail = j: step j (write j, or commit after the
\* last write) returns an error, `?` leaves the function and the transaction
\* is dropped without commit
transaction(table, writes, fail) ==
    IF fail = 0 THEN [table |-> apply_first(table, writes, Len(writes)), err |-> "none"]
    ELSE [table |-> table, err |-> "err"]

\* a slip of init_table: the table is created anew
Db_init_table_clears(exists, table, fail) ==
    LET t == transaction(table, <<>>, fail)
    IN  [table |-> IF t.err = "none" THEN EmptyTable ELSE table,
         exists |-> exists \/ t.err = "none", err |-> t.err, ret |-> None]

\* Db::init_table(table): the table is opened, which creates it empty when
\* the database has none of that name, and nothing is written. exists tells
\* whether the database had the table, whose records are table
Db_init_table(exists, table, fail) ==
    LET t == transaction(table, <<>>, fail)
    IN  [table |-> t.table, exists |-> exists \/ t.err = "none", err |-> t.err,
         ret |-> None]

\* Db::get_iter(table, keys)
Db_get_iter(table, keys) ==
    [table |-> table, err |-> "none", ret |-> get_iter(table, keys)]

\* Db::set(table, key, value)
Db_set(table, key, value, fail) ==
    LET t == transaction(table, <<insert_of(key, value)>>, fail)
    IN  [table |-> t.table, err |-> t.err, ret |-> None]

\* Db::set_iter(table, iter)
Db_set_iter(table, iter, fail) ==
    LET t == transaction(table, [i \in DOMAIN iter |-> insert_of(iter[i][1], iter[i][2])], fail)
    IN  [table |-> t.table, err |-> t.err, ret |-> None]

\* Db::remove(table, key): the value write_table.remove hands back is returned
Db_remove(table, key, fail) ==
    LET t == transaction(table, <<remove_of(key)>>, fail)
    IN  [table |-> t.table, err |-> t.err,
         ret |-> IF t.err = "none" THEN get(table, key) ELSE None]

\* Db::remove_iter(table, keys): each slot is what the removal of its key
\* handed back, after the removals before it
Db_remove_iter(table, keys, fail) ==
    LET writes == [i \in DOMAIN keys |-> remove_of(keys[i])]
        t == transaction(table, writes, fail)
    IN  [table |-> t.table, err |-> t.err,
         ret |-> IF t.err = "none"
                 THEN [i \in DOMAIN keys |-> get(apply_first(table, writes, i - 1), keys[i])]
                 ELSE <<>>]

\* a slip of modify: a closure that returns None leaves the record in place
Db_modify_keep(table, key, f, fail) ==
    LET seen == get(table, key)
    IN  IF fail # 1 /\ panics(f, seen)
        THEN [table |-> table, err |-> "panic", seen |-> seen, ret |-> None]
        ELSE LET writes == IF fail = 1 \/ ~is_some(func(f, seen)) THEN <<>>
                           ELSE <<remove_of(key), insert_of(key, unwrap(func(f, seen)))>>
                 t == transaction(table, writes, fail)
             IN  [table |-> t.table, err |-> t.err, seen |-> seen, ret |-> None]

\* Db::modify(table, key, func): the record is removed, func is applied to the
\* removed value, and what it returns is inserted. A panic of func unwinds
\* through the open transaction, which is dropped without commit. seen is
\* what func was given
Db_modify(table, key, f, fail) ==
    LET seen == get(table, key)
    IN  IF fail # 1 /\ panics(f, seen)
        THEN [table |-> transaction(table, <<remove_of(key)>>, 2).table,
              err |-> "panic", seen |-> seen, ret |-> None]
        ELSE LET writes == IF fail = 1 THEN <<remove_of(key)>>
                           ELSE IF is_some(func(f, seen))
                                THEN <<remove_of(key), insert_of(key, unwrap(func(f, seen)))>>
                                ELSE <<remove_of(key)>>
                 t == transaction(table, writes, fail)
             IN  [table |-> t.table, err |-> t.err, seen |-> seen, ret |-> None]

\* the second table of the database next to the one a call names
DbOthers ==
    {EmptyTable,
     [n \in {"a"} |-> to_db(from_file(PkgFile("a", 1), [installed |-> Manually(1), added |-> TRUE]))]}

\* the database in which the table named which holds table and the second
\* table holds other
database(which, table, other) ==
    IF which = "all" THEN [all |-> table, installed |-> other]
    ELSE [all |-> other, installed |-> table]

\* a call on the table named which of the database
DbCallOn(which, other, op, table, keys, values, f, fail) ==
    [op |-> op, which |-> which, other |-> other, table |-> table, keys |-> keys,
     values |-> values, f |-> f, fail |-> fail, result |-> None]

DbCall(op, table, keys, values, f, fail) ==
    DbCallOn("all", EmptyTable, op, table, keys, values, f, fail)

\* the steps at which a transaction of n writes can fail (0: nowhere)
Fails(n) == 0..(n + 1)

\* the calls: every operation on every table, with every argument and every
\* place of failure
DbCalls(c) ==
    \/ \E t \in DbTables, j \in Fails(0) :
           c = DbCall("init_table", t, <<>>, <<>>, "exists", j)
    \/ \E j \in Fails(0) :
           c = DbCall("init_table", EmptyTable, <<>>, <<>>, "absent", j)
    \/ \E t \in DbTables, ks \in KeySeqs :
           c = DbCall("get_iter", t, ks, <<>>, "none", 0)
    \/ \E w \in {"all", "installed"}, o \in DbOthers, t \in DbTables,
           k \in Names, v \in DbValues, j \in Fails(1) :
           c = DbCallOn(w, o, "set", t, <<k>>, <<v>>, "none", j)
    \/ \E t \in DbTables, it \in PairSeqs : \E j \in Fails(Len(it)) :
           c = DbCall("set_iter", t, <<>>, it, "none", j)
    \/ \E w \in {"all", "installed"}, o \in DbOthers, t \in DbTables,
           k \in Names, j \in Fails(1) :
           c = DbCallOn(w, o, "remove", t, <<k>>, <<>>, "none", j)
    \/ \E t \in DbTables, ks \in KeySeqs : \E j \in Fails(Len(ks)) :
           c = DbCall("remove_iter", t, ks, <<>>, "none", j)
    \/ \E t \in DbTables, k \in Names, f \in Closures, j \in Fails(2) :
           c = DbCall("modify", t, <<k>>, <<>>, f, j)

InitDb ==
    /\ all_pkgs = EmptyTable
    /\ installed_pkgs = EmptyTable
    /\ pc = "idle"
    /\ args = <<>>
    /\ packages = {}
    /\ candidates = {}
    /\ todo = {}
    /\ cur = None
    /\ fx = NoFx
    /\ outcome = "none"
    /\ start = [all |-> EmptyTable, installed |-> EmptyTable]
    /\ DbCalls(call)

\* the call returns; the transaction opened the table it names and no other
Returns(op, result) ==
    /\ call.op = op
    /\ call.result = None
    /\ call' = [call EXCEPT !.result =
                    Some([db |-> database(call.which, result.table, call.other)] @@ result)]
    /\ UNCHANGED <<all_pkgs, installed_pkgs, pc, args, packages, candidates, todo, cur,
                   fx, outcome, start>>

CallInitTable ==
    Returns("init_table", Db_init_table(call.f = "exists", call.table, call.fail))
CallGetIter == Returns("get_iter", Db_get_iter(call.table, call.keys))
CallSet == Returns("set", Db_set(call.table, call.keys[1], call.values[1], call.fail))
CallSetIter == Returns("set_iter", Db_set_iter(call.table, call.values, call.fail))
CallRemove == Returns("remove", Db_remove(call.table, call.keys[1], call.fail))
CallRemoveIter == Returns("remove_iter", Db_remove_iter(call.table, call.keys, call.fail))
CallModify == Returns("modify", Db_modify(call.table, call.keys[1], call.f, call.fail))

NextDb ==
    \/ CallInitTable
    \/ CallGetIter
    \/ CallSet
    \/ CallSetIter
    \/ CallRemove
    \/ CallRemoveIter
    \/ CallModify

SpecDb == InitDb /\ [][NextDb]_vars

----------------------------------------------------------------------------
(* The conversions between Package and DbPackage, applied one after the other *)

\* what an optional string and an optional list of a Package can be
OptStrings(present) == {None, Some(""), Some(present)}
OptLists == {None, Some(<<>>), Some(<<"a">>)}

\* the packages: every combination of the optional fields
ConvPackages ==
    [info : [name : Names, version : Versions, dependencies : OptLists],
     source : [checksum : OptStrings("sha512"), build : OptStrings("make")],
     local : [installed : InstalledValues, added : BOOLEAN]]

\* the wire records: strings and lists, empty or not; the version is what
\* to_string prints, or a string that is no version
ConvWires ==
    [name : Names,
     version : {version_to_string(v) : v \in Versions} \cup {"latest"},
     dependencies : {<<>>, <<"a">>},
     checksum : {"", "sha512"},
     build : {"", "make"},
     installed : InstalledValues,
     added : BOOLEAN]

InitConv ==
    /\ all_pkgs = EmptyTable
    /\ installed_pkgs = EmptyTable
    /\ pc = "idle"
    /\ args = <<>>
    /\ packages = {}
    /\ candidates = {}
    /\ todo = {}
    /\ cur = None
    /\ fx = NoFx
    /\ outcome = "none"
    /\ start = [all |-> EmptyTable, installed |-> EmptyTable]
    /\ \/ \E w \in ConvWires : call = [op |-> "from_db", value |-> w, result |-> None]
       \/ \E p \in ConvPackages : call = [op |-> "to_db", value |-> p, result |-> None]

\* DbPackage::from(Package::from(w)); Package::from panics on a version
\* string that does not parse
CallFromDb ==
    /\ call.op = "from_db"
    /\ call.result = None
    /\ call' = [call EXCEPT !.result =
                    Some(IF version_is_valid(call.value.version)
                         THEN [panicked |-> FALSE, value |-> to_db(from_db(call.value))]
                         ELSE [panicked |-> TRUE, value |-> call.value])]
    /\ UNCHANGED <<all_pkgs, installed_pkgs, pc, args, packages, candidates, todo, cur,
                   fx, outcome, start>>

\* Package::from(DbPackage::from(p))
CallToDb ==
    /\ call.op = "to_db"
    /\ call.result = None
    /\ call' = [call EXCEPT !.result =
                    Some([panicked |-> FALSE, value |-> from_db(to_db(call.value))])]
    /\ UNCHANGED <<all_pkgs, installed_pkgs, pc, args, packages, candidates, todo, cur,
                   fx, outcome, start>>

SpecConv == InitConv /\ [][CallFromDb \/ CallToDb]_vars

----------------------------------------------------------------------------
(* install --local of one package, run after run, over one more version *)

UpgradeVersions == 1..(MaxVer + 1)

\* mercurium install --local <pkgfile of "a">
InstallLocalOne ==
    \E v \in UpgradeVersions : Begin("add_pkgfile", <<PkgFile("a", v)>>)

NextUpgrade ==
    \/ Idle
    \/ InstallLocalOne
    \/ AddToPayload
    \/ CheckInstall
    \/ Confirm
    \/ DownloadPkgs
    \/ DownloadSource
    \/ DownloadJoin
    \/ CheckSha512Pkgs
    \/ DecompressPkgs
    \/ BuildPkgs
    \/ InstallPkgs
    \/ WriteDbModify
    \/ WriteDbSet

SpecUpgrade == Init /\ [][NextUpgrade]_vars

----------------------------------------------------------------------------
(* The update command: main.rs *)

\* the names in the order in which a table is iterated
KeyOrder == <<"a", "b">>
keys_of(table) == SelectSeq(KeyOrder, LAMBDA k : k \in DOMAIN table)

\* update: the filter on a record of INSTALLED_PKGS; a record that is not
\* installed is warned about and skipped
outdated(pkg) ==
    /\ pkg.local.installed # False
    /\ pkg.info.version > pkg.local.installed.ver

\* mercurium update [<names>]: the given names, or every name of
\* INSTALLED_PKGS
Update ==
    \/ \E names \in ArgLists(Names) : Begin("update", names)
    \/ Begin("update", keys_of(installed_pkgs))

\* update: the next name of the iterator (the record get_iter returned for
\* it, the filter, payload.add_pkg), and payload.install() after the last one
UpdateNext ==
    /\ pc = "update"
    /\ IF args = <<>>
       THEN /\ pc' = "check_install"
            /\ UNCHANGED <<args, packages, outcome>>
       ELSE LET name == Head(args)
                pkg == get(installed_pkgs, name)
                r == IF is_some(pkg) /\ outdated(unwrap(pkg))
                     THEN add_pkg(all_pkgs, packages, name)
                     ELSE [err |-> "none", packages |-> packages]
            IN  /\ args' = Tail(args)
                /\ IF ~is_some(pkg)
                   THEN Exit("package_not_found") /\ UNCHANGED packages
                   ELSE /\ packages' = r.packages
                        /\ IF r.err # "none" THEN Exit(r.err)
                           ELSE /\ pc' = IF Tail(args) = <<>> THEN "check_install" ELSE pc
                                /\ UNCHANGED outcome
    /\ UNCHANGED <<all_pkgs, installed_pkgs, todo, cur, fx, candidates, start, call>>

\* the four commands with every store call succeeding
SpecCommands == Init /\ [][Next \/ Update \/ UpdateNext]_vars

\* the commands with every store call succeeding
Spec == Init /\ [][Next]_vars

\* the commands with storage errors
SpecFault == Init /\ [][Next \/ StorageError]_vars

----------------------------------------------------------------------------
(* Properties *)

installed_in(table, n) == unwrap(get(table, n)).local.installed
is_manually(table, n) == n \in DOMAIN table /\ installed_in(table, n).tag = "Manually"

\* the installed-table entry of n, if any, has a catalog entry with the same
\* local.installed
Mirrored(n) ==
    n \in DOMAIN installed_pkgs =>
        /\ n \in DOMAIN all_pkgs
        /\ installed_in(all_pkgs, n) = installed_in(installed_pkgs, n)

\* C1: between commands (every store call having succeeded), a name with an
\* entry in the installed table has a catalog entry whose local.installed
\* equals the installed-table entry's.
C1_InstalledMirrorsCatalog ==
    pc \in {"idle", "done"} => \A n \in Names : Mirrored(n)

\* both packages are installed, one of them as a dependency, after an add, an
\* install and a write-back
C1_Witness ==
    /\ pc = "done" /\ outcome = "ok"
    /\ DOMAIN installed_pkgs = Names
    /\ \E n \in Names : installed_in(installed_pkgs, n).tag = "Automatically"
    /\ \E n \in Names : all_pkgs[n].added

\* C2: a command that a storage error ended leaves no name whose
\* local.installed differs between the installed table and the catalog.
C2_NoDisagreementAfterStorageError ==
    (pc = "done" /\ outcome = "storage_error") => \A n \in Names : Mirrored(n)

\* C3: a catalog record that is Manually(_) has an installed-table record that
\* is Manually(_), and both stay so in every step but the remove of that package.
C3_ManualIsSticky ==
    [][\A n \in Names :
          is_manually(all_pkgs, n) =>
              /\ is_manually(installed_pkgs, n)
              /\ \/ pc = "remove_modify" /\ Head(args) = n
                 \/ is_manually(all_pkgs', n) /\ is_manually(installed_pkgs', n)]_vars

\* a manually installed package was written back by a run that pulled it in
\* as a dependency only
C3_Witness ==
    /\ pc = "done" /\ outcome = "ok"
    /\ \E p \in packages :
          LET n == p.file.info.name
          IN  /\ \A q \in packages : q.file.info.name = n => ~q.manually_selected
              /\ is_manually(start.installed, n)
              /\ is_manually(all_pkgs, n)
              /\ installed_in(all_pkgs, n) # installed_in(start.all, n)

\* C4: Installed::update(old, new) is new when old is False or
\* Automatically(_), Manually(v) when old is Manually(_) and new is
\* Automatically(v) or Manually(v), and False when new is False.
C4_UpdateMergeRule ==
    (call.op = "update" /\ is_some(call.result)) =>
        LET result == unwrap(call.result)
        IN  /\ call.old.tag \in {"False", "Automatically"} => result = call.new
            /\ (call.old.tag = "Manually" /\ call.new.tag \in {"Automatically", "Manually"})
                   => result = Manually(call.new.ver)
            /\ call.new.tag = "False" => result = False

\* Manually(v1).update(Automatically(v2)) was computed, with v1 < v2
C4_Witness ==
    /\ call.op = "update" /\ is_some(call.result)
    /\ call.old.tag = "Manually" /\ call.new.tag = "Automatically"
    /\ call.old.ver < call.new.ver
    /\ unwrap(call.result) = Manually(call.new.ver)

\* C5: a catalog record whose local.added is true keeps it true in every step.
C5_AddedStaysTrue ==
    [][\A n \in Names :
          (n \in DOMAIN all_pkgs /\ all_pkgs[n].added) =>
              (n \in DOMAIN all_pkgs' /\ all_pkgs'[n].added)]_vars

\* the names of the payload that were requested explicitly
selected_names(payload) == {p.file.info.name : p \in {q \in payload : q.manually_selected}}

\* C6: after an install run that succeeded, every surviving candidate whose
\* name had no installed-table entry before is, in both tables,
\* Manually(candidate version) when its name was requested and
\* Automatically(candidate version) when it was only a dependency.
C6_FreshInstallState ==
    (pc = "done" /\ outcome = "ok") =>
        \A p \in packages :
            LET n == p.file.info.name
                expected == IF n \in selected_names(packages)
                            THEN Manually(p.file.info.version)
                            ELSE Automatically(p.file.info.version)
            IN  n \notin DOMAIN start.installed =>
                    /\ n \in DOMAIN all_pkgs /\ installed_in(all_pkgs, n) = expected
                    /\ n \in DOMAIN installed_pkgs
                    /\ installed_in(installed_pkgs, n) = expected

\* the record check_install compares a candidate with under the per-name
\* reading: the installed-table record of the candidate's own name
own_record(p) == get(start.installed, p.file.info.name)
stale(p) == is_some(own_record(p)) /\ unwrap(own_record(p)).info.version >= p.file.info.version

C8_FilterByOwnName ==
    \A p \in candidates : p \notin packages => stale(p)

\* C9: when the staleness filter leaves no candidate the run ends with the
\* "up to date" message and exit code OK, no stage having run and both tables
\* as they were.
C9_NothingToDo ==
    /\ (candidates # {} /\ packages = {}) => outcome = "up_to_date"
    /\ outcome = "up_to_date" =>
           /\ pc = "done" /\ exit_code(outcome) = "OK"
           /\ fx = NoFx /\ todo = {} /\ cur = None
           /\ Tables = start

\* an install run whose candidates were all stale has ended
C9_Witness ==
    /\ pc = "done" /\ outcome = "up_to_date"
    /\ candidates # {} /\ packages = {}
    /\ \A p \in candidates : stale(p)

\* C10: a declined confirmation ends the run with no stage having run and
\* both tables as they were.
C10_DeclineNoSideEffects ==
    outcome = "declined" =>
        /\ pc = "done"
        /\ fx = NoFx /\ todo = {} /\ cur = None
        /\ Tables = start

\* the user declined the installation of a non-empty payload
C10_Witness ==
    /\ pc = "done" /\ outcome = "declined"
    /\ packages # {}
    /\ start.all # EmptyTable

\* the payload entries write_db has written a record for so far in this run
written_back ==
    (IF pc \in {"write_db", "write_db_set"} \/ (pc = "done" /\ outcome = "ok")
     THEN packages \ todo ELSE {})
    \cup (IF is_some(cur) THEN {unwrap(cur)} ELSE {})

\* the payload entries a stage after the download has worked on: the checksum
\* of its file computed, its tarball unpacked, its build or install command
\* run, its record written
past_download == fx.sha \cup fx.untar \cup fx.built \cup fx.ran \cup written_back

\* C11: a package whose download failed (transport error or non-success
\* response) is not worked on by the checksum, extraction, build, install
\* or write-back stage.
C11_FailedDownloadStops ==
    \A p \in DOMAIN fx.dl : fx.dl[p] \in DlFailed => p \notin past_download

\* the file downloaded for a payload entry that declares a checksum does not
\* have that digest
mismatch(p) ==
    /\ is_some(p.file.source.checksum)
    /\ has_file(p)
    /\ fx.files[tar_name(p)] # "ok"

\* C12: while the downloaded file of a payload entry does not have the
\* checksum the entry declares, the run never gets past check_sha512_pkgs: the
\* entry is not unpacked, built or installed, no record is written, and the
\* run ends in an error.
C12_ChecksumGate ==
    \A p \in packages :
        mismatch(p) =>
            /\ p \notin fx.untar \cup fx.built \cup fx.ran \cup written_back
            /\ Tables = start
            /\ pc \in {"downloading", "check_sha512_pkgs", "done"}
            /\ pc = "done" => exit_code(outcome) # "OK"

\* a success response delivered other bytes than the published tarball and
\* the run ended with the "Invalid checksum" message
C12_Witness ==
    /\ pc = "done" /\ outcome = "invalid_checksum"
    /\ exit_code(outcome) = "SOFTWARE"
    /\ \E p \in packages : mismatch(p) /\ fx.dl[p] = "corrupt" /\ p \in fx.sha

\* the payload entries that declare a build command
with_build == {p \in packages : is_some(p.file.source.build)}

\* C13: the stages run one after the other over the whole payload: a checksum
\* is computed or a tarball unpacked only when every download has resolved, a
\* build command runs only when every tarball is unpacked, an install command
\* only when every build command has run, and a record is written only when
\* every install command has run.
C13_StagesOrdered ==
    /\ (fx.sha \cup fx.untar # {}) =>
           (DOMAIN fx.dl = packages /\ \A p \in packages : fx.dl[p] # "pending")
    /\ fx.built # {} => fx.untar = packages
    /\ fx.ran # {} => (fx.untar = packages /\ fx.built = with_build)
    /\ written_back # {} => fx.ran = packages

\* a run over two packages, one of them with a build command, wrote both back
C13_Witness ==
    /\ pc = "done" /\ outcome = "ok"
    /\ Cardinality(packages) = 2
    /\ with_build # {}
    /\ written_back = packages
    /\ fx.ran = packages /\ fx.untar = packages /\ fx.built = with_build

\* C14: the download tasks of a run write to pairwise different paths.
C14_DisjointDownloadPaths ==
    \A p, q \in DOMAIN fx.dl : p # q => tar_name(p) # tar_name(q)

\* C15: a step in which the download of one payload entry fails leaves every
\* other download task as it was and, while one of them is pending, the run
\* in the download stage, so that each of them still resolves.
C15_FailureDoesNotCancel ==
    [][\A p \in DOMAIN fx.dl :
          (fx.dl[p] = "pending" /\ p \in DOMAIN fx'.dl /\ fx'.dl[p] \in DlFailed) =>
              \A q \in DOMAIN fx.dl \ {p} :
                  /\ fx'.dl[q] = fx.dl[q]
                  /\ fx.dl[q] = "pending" => pc' = "downloading"]_vars

\* C16: a build or install command that exits with a non-zero status ends
\* the run in an error, with no record written and both tables as they were
\* at the start of the run.
C16_CommandFailureLeavesTables ==
    outcome \in {"build_failed", "install_failed"} =>
        /\ pc = "done" /\ exit_code(outcome) # "OK"
        /\ written_back = {}
        /\ Tables = start

\* with records in the catalog, the install command of one payload entry
\* succeeded and the one of another entry failed
C16_Witness ==
    /\ pc = "done" /\ outcome = "install_failed"
    /\ Cardinality(packages) = 2 /\ fx.ran = packages
    /\ fx.built # {}
    /\ start.all # EmptyTable
    /\ Tables = start

\* C17: a storage error during write_db changes neither table, and after it
\* every name whose write-back was complete has its record, installed, in
\* both tables.
C17_CommittedWriteBacksRemain ==
    /\ [][(pc \in {"write_db", "write_db_set"} /\ outcome' = "storage_error") =>
              (all_pkgs' = all_pkgs /\ installed_pkgs' = installed_pkgs)]_vars
    /\ []((pc = "done" /\ outcome = "storage_error" /\ fx.ran # {}) =>
              \A p \in packages \ todo :
                  LET n == p.file.info.name
                  IN  /\ n \in DOMAIN all_pkgs /\ n \in DOMAIN installed_pkgs
                      /\ installed_in(all_pkgs, n).tag # "False"
                      /\ installed_in(installed_pkgs, n).tag # "False")

\* a storage error ended write_db after the record of a package that was in
\* neither table before had been written to both
C17_Witness ==
    /\ pc = "done" /\ outcome = "storage_error"
    /\ fx.ran # {} /\ todo # {}
    /\ \E p \in packages \ todo :
          LET n == p.file.info.name
          IN  /\ n \notin DOMAIN start.all /\ n \notin DOMAIN start.installed
              /\ n \in DOMAIN all_pkgs /\ n \in DOMAIN installed_pkgs

\* the names an Option<Vec<String>> of dependencies lists
dep_names(deps) == IF is_some(deps) THEN {unwrap(deps)[i] : i \in DOMAIN unwrap(deps)} ELSE {}

\* the package file stored in the catalog under a name
catalog_file(n) == into_file(unwrap(get(all_pkgs, n)))

\* C18: add_pkg(name) on an empty payload: a name that is not in the catalog
\* ends the run with the not-found error, a declared dependency that is not
\* in the catalog with the dependency-not-found error, and otherwise the
\* payload is exactly the named package, selected and not added, and each of
\* its declared dependencies, neither selected nor added.
C18_AddPkgWorkingSet ==
    [][(pc = "add_pkg" /\ packages = {}) =>
          LET n == Head(args)
              deps == dep_names(unwrap(get(all_pkgs, n)).info.dependencies)
          IN  IF n \notin DOMAIN all_pkgs
              THEN /\ pc' = "done" /\ outcome' = "package_not_found"
                   /\ exit_code(outcome') = "DATAERR" /\ packages' = {}
              ELSE IF ~(deps \subseteq DOMAIN all_pkgs)
              THEN /\ pc' = "done" /\ outcome' = "dependency_not_found"
                   /\ exit_code(outcome') = "DATAERR" /\ packages' = {}
              ELSE /\ pc' # "done"
                   /\ packages' =
                          {[file |-> catalog_file(n), manually_selected |-> TRUE,
                            manually_added |-> FALSE]}
                          \cup {[file |-> catalog_file(d), manually_selected |-> FALSE,
                                  manually_added |-> FALSE] : d \in deps}]_vars

\* add_pkg of a package with one dependency produced the payload of two
C18_Witness ==
    /\ pc \in {"add_pkg", "check_install"}
    /\ Cardinality(packages) = 2
    /\ \E p, q \in packages :
          /\ p.manually_selected /\ ~p.manually_added
          /\ ~q.manually_selected /\ ~q.manually_added
          /\ p.file.info.dependencies = Some(<<q.file.info.name>>)
          /\ q.file.info.dependencies = None

\* the names of the entries of a payload
payload_names(payload) == {p.file.info.name : p \in payload}

\* the dependencies the catalog record of a name declares
declared_deps(table, n) == dep_names(unwrap(get(table, n)).info.dependencies)

\* C19: add_pkg on an empty payload puts the named package and the
\* dependencies it declares itself in the payload, and no dependency of a
\* dependency.
C19_OneLevelDependencies ==
    (call.op = "add_pkg" /\ is_some(call.result) /\ unwrap(call.result).err = "none") =>
        payload_names(unwrap(call.result).packages) =
            {call.name} \cup declared_deps(call.table, call.name)

\* add_pkg(A) was computed on a catalog where A depends on B and B on a third
\* package C, and the payload holds A and B only
C19_Witness ==
    /\ call.op = "add_pkg" /\ is_some(call.result) /\ unwrap(call.result).err = "none"
    /\ \E B, C \in Names3 :
          /\ Cardinality({call.name, B, C}) = 3
          /\ declared_deps(call.table, call.name) = {B}
          /\ declared_deps(call.table, B) = {C}
          /\ payload_names(unwrap(call.result).packages) = {call.name, B}

\* C20: the payload holds at most one entry per package name.
C20_OneEntryPerName ==
    \A p, q \in packages : p.file.info.name = q.file.info.name => p = q

\* the record of name n in a table carries the info and source of a package
\* file and is marked as added
holds_definition(table, n, file) ==
    /\ n \in DOMAIN table
    /\ unwrap(get(table, n)).local.added
    /\ unwrap(get(table, n)).info = file.info
    /\ unwrap(get(table, n)).source = file.source

\* C21: add_pkgfile inserts the package file itself, selected and added, and
\* each dependency it declares from the catalog, neither selected nor added;
\* and after a successful install every package file whose name had no
\* installed-table entry is, in both tables, a record with added = true and
\* the info and source of the file.
C21_AddPkgfileDefinition ==
    /\ [][pc = "add_pkgfile" =>
              LET file == Head(args)
                  deps == dep_names(file.info.dependencies)
              IN  IF deps \subseteq DOMAIN all_pkgs
                  THEN /\ pc' # "done"
                       /\ packages' = packages
                              \cup {[file |-> file, manually_selected |-> TRUE,
                                      manually_added |-> TRUE]}
                              \cup {[file |-> catalog_file(d), manually_selected |-> FALSE,
                                      manually_added |-> FALSE] : d \in deps}
                  ELSE pc' = "done" /\ outcome' = "dependency_not_found"]_vars
    /\ []((pc = "done" /\ outcome = "ok") =>
              \A p \in packages :
                  (p.manually_added /\ p.file.info.name \notin DOMAIN start.installed) =>
                      /\ holds_definition(all_pkgs, p.file.info.name, p.file)
                      /\ holds_definition(installed_pkgs, p.file.info.name, p.file))


\* the call of the store that has returned, and what it returned
returned(op) == call.op = op /\ is_some(call.result)

\* the two tables agree on every key outside keys
same_elsewhere(before, after, keys) ==
    \A k \in (DOMAIN before \cup DOMAIN after) \ keys :
        k \in DOMAIN before /\ k \in DOMAIN after /\ before[k] = after[k]

\* C22: a modify call that succeeds hands its closure the current value of
\* the key (None when the key is absent); when the closure returns Some(v) the
\* key holds v afterwards, when it returns None the key is absent afterwards
\* even if it held a value before; no other key changes.
C22_ModifyReadModifyWrite ==
    (returned("modify") /\ unwrap(call.result).err = "none") =>
        LET result == unwrap(call.result)
            key == call.keys[1]
            out == func(call.f, result.seen)
        IN  /\ result.seen = IF key \in DOMAIN call.table
                             THEN Some(from_db(call.table[key])) ELSE None
            /\ is_some(out) =>
                   key \in DOMAIN result.table /\ result.table[key] = to_db(unwrap(out))
            /\ ~is_some(out) => key \notin DOMAIN result.table
            /\ same_elsewhere(call.table, result.table, {key})
            /\ result.table = modify(call.table, key, out)

\* a closure that returns None was applied to a key that held a value, next
\* to another key that holds one
C22_Witness ==
    /\ returned("modify") /\ unwrap(call.result).err = "none"
    /\ call.f = "none"
    /\ call.keys[1] \in DOMAIN call.table
    /\ call.keys[1] \notin DOMAIN unwrap(call.result).table
    /\ DOMAIN unwrap(call.result).table # {}


\* the calls of the store that write
Mutations == {"set", "set_iter", "remove", "remove_iter", "modify"}

\* C23: a set, set_iter, remove, remove_iter or modify call in which a write
\* or the commit fails, or whose closure panics, leaves the table exactly as
\* it was before the call, and never returns as a success: a failing write
\* is returned as the error of the call.
C23_MutationAllOrNothing ==
    (call.op \in Mutations /\ is_some(call.result)) =>
        LET result == unwrap(call.result)
        IN  /\ result.err # "none" => result.table = call.table
            /\ call.fail # 0 => result.err # "none"
            /\ (call.fail # 0 /\ call.op # "modify") => result.err = "err"
            /\ (call.op = "modify" /\ result.err = "panic") => panics(call.f, result.seen)

\* a modify call removed a record, its closure returned Some, the insert
\* failed, and the record is still there; the table holds another record too
C23_Witness ==
    /\ returned("modify")
    /\ call.fail = 2
    /\ call.keys[1] \in DOMAIN call.table
    /\ call.f = "add_to_db"
    /\ unwrap(call.result).err = "err"
    /\ call.keys[1] \in DOMAIN unwrap(call.result).table
    /\ Cardinality(DOMAIN call.table) = 2


\* C24: get_iter returns one slot for each requested key, in the order of the
\* keys: the value of the key, or None when the table does not hold it; the
\* table is unchanged.
C24_GetIterSlots ==
    returned("get_iter") =>
        LET result == unwrap(call.result)
        IN  /\ result.err = "none"
            /\ Len(result.ret) = Len(call.keys)
            /\ \A i \in DOMAIN call.keys :
                   result.ret[i] = IF call.keys[i] \in DOMAIN call.table
                                   THEN Some(from_db(call.table[call.keys[i]]))
                                   ELSE None
            /\ result.table = call.table

\* two keys were requested, the first unknown and the second known
C24_Witness ==
    /\ returned("get_iter")
    /\ Len(call.keys) = 2
    /\ call.keys[1] \notin DOMAIN call.table
    /\ call.keys[2] \in DOMAIN call.table
    /\ unwrap(call.result).ret[1] = None
    /\ is_some(unwrap(call.result).ret[2])


\* the name of the table of the database that a call does not name
other_of(which) == IF which = "all" THEN "installed" ELSE "all"

\* C25: a remove call that succeeds returns the value the key held (None
\* when it held none) and leaves the key absent; a set call that succeeds
\* leaves the key holding the given value, whether or not it held one before;
\* neither changes another key, nor the other table of the database.
C25_RemoveAndSet ==
    /\ (returned("remove") /\ unwrap(call.result).err = "none") =>
           LET result == unwrap(call.result)
               key == call.keys[1]
           IN  /\ result.ret = IF key \in DOMAIN call.table
                               THEN Some(from_db(call.table[key])) ELSE None
               /\ key \notin DOMAIN result.table
               /\ same_elsewhere(call.table, result.table, {key})
               /\ result.db[call.which] = result.table
               /\ result.db[other_of(call.which)] = call.other
    /\ (returned("set") /\ unwrap(call.result).err = "none") =>
           LET result == unwrap(call.result)
               key == call.keys[1]
           IN  /\ key \in DOMAIN result.table
               /\ result.table[key] = to_db(call.values[1])
               /\ same_elsewhere(call.table, result.table, {key})
               /\ result.db[call.which] = result.table
               /\ result.db[other_of(call.which)] = call.other

\* a record was removed from a table of two records and returned, while the
\* other table of the database holds a record under the same key
C25_Witness ==
    /\ returned("remove") /\ unwrap(call.result).err = "none"
    /\ Cardinality(DOMAIN call.table) = 2
    /\ is_some(unwrap(call.result).ret)
    /\ Cardinality(DOMAIN unwrap(call.result).table) = 1
    /\ call.keys[1] \in DOMAIN call.other


\* C26: init_table on a table that exists, whatever it holds, returns without
\* error when the storage does not fail, and the table holds the same records
\* afterwards.
C26_InitTableIdempotent ==
    (returned("init_table") /\ call.f = "exists") =>
        LET result == unwrap(call.result)
        IN  /\ call.fail = 0 => result.err = "none"
            /\ result.exists
            /\ result.table = call.table

\* init_table returned on a table that holds two records
C26_Witness ==
    /\ returned("init_table") /\ call.f = "exists"
    /\ unwrap(call.result).err = "none"
    /\ Cardinality(DOMAIN call.table) = 2
    /\ DOMAIN unwrap(call.result).table = DOMAIN call.table


\* C27: converting a wire record whose version string parses to a Package and
\* back gives the same wire record, and converting a Package to a wire record
\* and back gives the same Package, also when an optional field of it is Some
\* of an empty string or Some of an empty list.
C27_RoundTrip ==
    /\ (call.op = "from_db" /\ is_some(call.result)
            /\ version_is_valid(call.value.version)) =>
           /\ ~unwrap(call.result).panicked
           /\ unwrap(call.result).value = call.value
    /\ (call.op = "to_db" /\ is_some(call.result)) =>
           unwrap(call.result).value = call.value


\* C28: add_to_db of a package file leaves a catalog record of its name with
\* added = true and the info and source of the file; installed is False when
\* the catalog had no record of the name and what it was otherwise; the
\* installed table is not modified.
C28_AddToDbRecord ==
    [][pc = "add_to_db" =>
           LET file == Head(args)
               name == file.info.name
           IN  /\ name \in DOMAIN all_pkgs'
               /\ all_pkgs'[name].added
               /\ into_file(unwrap(get(all_pkgs', name))) = file
               /\ name \notin DOMAIN all_pkgs => all_pkgs'[name].installed = False
               /\ name \in DOMAIN all_pkgs =>
                      all_pkgs'[name].installed = all_pkgs[name].installed
               /\ same_elsewhere(all_pkgs, all_pkgs', {name})
               /\ installed_pkgs' = installed_pkgs]_vars

\* the first file of an add command named an installed package and replaced
\* its definition: the record carries another version and is still installed
C28_Witness ==
    /\ pc = "add_to_db" /\ Len(args) = 1
    /\ \E n \in DOMAIN start.all :
          /\ installed_in(start.all, n) # False
          /\ all_pkgs[n].version # start.all[n].version
          /\ installed_in(all_pkgs, n) = installed_in(start.all, n)
          /\ all_pkgs[n].added


\* C29: removing a name the catalog knows changes its catalog record in
\* installed only, which becomes False, and no other catalog record; it then
\* removes the entry of the name from the installed table and leaves the
\* catalog as it is, so that the record is still there with installed = False.
C29_LogicalDelete ==
    /\ [][(pc = "remove_modify" /\ Head(args) \in DOMAIN all_pkgs) =>
              LET name == Head(args)
              IN  /\ pc' = "remove_remove"
                  /\ args' = args
                  /\ name \in DOMAIN all_pkgs'
                  /\ all_pkgs'[name] = [all_pkgs[name] EXCEPT !.installed = False]
                  /\ same_elsewhere(all_pkgs, all_pkgs', {name})
                  /\ installed_pkgs' = installed_pkgs]_vars
    /\ [][pc = "remove_remove" =>
              LET name == Head(args)
              IN  /\ name \notin DOMAIN installed_pkgs'
                  /\ same_elsewhere(installed_pkgs, installed_pkgs', {name})
                  /\ all_pkgs' = all_pkgs
                  /\ name \in DOMAIN all_pkgs'
                  /\ all_pkgs'[name].installed = False]_vars

\* the first name of a remove command was installed: its catalog record is
\* still there, not installed, and the installed table has no entry for it
C29_Witness ==
    /\ pc = "remove_modify" /\ Len(args) = 1
    /\ \E n \in DOMAIN start.installed :
          /\ installed_in(start.all, n) # False
          /\ n \notin DOMAIN installed_pkgs
          /\ n \in DOMAIN all_pkgs
          /\ all_pkgs[n] = [start.all[n] EXCEPT !.installed = False]


\* C30: in every state that add, install and remove commands reach, no record
\* of the installed table has local.installed = False.
C30_InstalledTableInstalled ==
    \A n \in DOMAIN installed_pkgs : installed_pkgs[n].installed # False

\* a remove command has removed one installed package while the installed
\* table still holds another
C30_Witness ==
    /\ DOMAIN installed_pkgs # {}
    /\ \E m \in DOMAIN start.installed :
          /\ m \notin DOMAIN installed_pkgs
          /\ m \in DOMAIN all_pkgs
          /\ all_pkgs[m].installed = False


\* the payload entries that declare a checksum
with_checksum == {p \in packages : is_some(p.file.source.checksum)}

\* C31: check_sha512_pkgs computes no checksum for an entry that declares
\* none, and such an entry never makes the stage fail: when the file of every
\* entry that declares a checksum matches, the run goes on to decompress_pkgs
\* with the whole payload and the files as they were downloaded.
C31_NoChecksumSkips ==
    [][pc = "check_sha512_pkgs" =>
           /\ fx'.sha \subseteq with_checksum
           /\ (\A p \in with_checksum : has_file(p) /\ fx.files[tar_name(p)] = "ok") =>
                  /\ pc' = "decompress_pkgs"
                  /\ packages' = packages
                  /\ fx'.files = fx.files]_vars

\* an entry without a checksum whose download delivered other bytes than the
\* published tarball passed the checksum stage and was unpacked
C31_Witness ==
    \E p \in packages :
        /\ ~is_some(p.file.source.checksum)
        /\ has_file(p)
        /\ fx.files[tar_name(p)] = "corrupt"
        /\ p \notin fx.sha
        /\ p \in fx.untar


\* the installed state the catalog records for n: False without a record
catalog_installed(table, n) == IF n \in DOMAIN table THEN table[n].installed ELSE False

definition_in(table, n) == into_file(unwrap(get(table, n)))

\* C33: after a successful install run whose candidates were all taken from
\* the catalog, the catalog record of every written candidate's name has the
\* info and source it had before the run.
C33_CatalogDefinitionKept ==
    (pc = "done" /\ outcome = "ok" /\ \A p \in packages : ~p.manually_added) =>
        \A p \in packages :
            LET name == p.file.info.name
            IN  /\ name \in DOMAIN all_pkgs
                /\ definition_in(all_pkgs, name) = definition_in(start.all, name)


\* the payload has one entry per name
one_per_name(payload) ==
    \A p, q \in payload : p.file.info.name = q.file.info.name => p = q

\* the record is installed at the version its info carries
coherent(table, n) ==
    /\ installed_in(table, n) # False
    /\ installed_in(table, n).ver = unwrap(get(table, n)).info.version

\* C34: after a successful install run (of a payload with one entry per
\* name), the installed-table record of every written candidate is installed
\* at the version its info carries, on a first install and on an upgrade.
C34_InstalledRecordCoherent ==
    (pc = "done" /\ outcome = "ok" /\ one_per_name(packages)) =>
        \A p \in packages :
            /\ p.file.info.name \in DOMAIN installed_pkgs
            /\ coherent(installed_pkgs, p.file.info.name)


\* C35: after a successful install run, every name that had an
\* installed-table entry before the run still has one, installed at a
\* version that is not lower.
C35_InstalledVersionMonotone ==
    (pc = "done" /\ outcome = "ok" /\ packages # {}) =>
        \A n \in DOMAIN start.installed :
            /\ n \in DOMAIN installed_pkgs
            /\ installed_in(installed_pkgs, n).ver >= installed_in(start.installed, n).ver


\* the payload install / install_local build for the request that selected
\* the given entries, against the catalog table: add_pkgfile for an entry
\* that came from a file, add_pkg for one that came from the catalog
RECURSIVE rebuild(_, _, _)
rebuild(table, payload, selected) ==
    IF selected = {} THEN payload
    ELSE LET p == CHOOSE q \in selected : TRUE
             r == IF p.manually_added THEN add_pkgfile(table, payload, p.file)
                  ELSE add_pkg(table, payload, p.file.info.name)
         IN  rebuild(table, r.packages, selected \ {p})

\* the payload of the request of this run, built again against the tables as
\* they are now
again == rebuild(all_pkgs, {}, {p \in candidates : p.manually_selected})

\* C36: after a successful install run (of a payload with one entry per
\* name), the same request built again against the resulting tables has every
\* candidate dropped by the staleness filter, on a first install and on an
\* upgrade.
C36_RerunIsNoOp ==
    (pc = "done" /\ outcome = "ok" /\ packages # {} /\ one_per_name(candidates)) =>
        retain(again, installed_of(installed_pkgs, again)) = {}


\* the tables after write_db has written the entries of payload in one fixed
\* order: for each entry the modify of INSTALLED_PKGS, then the get and the set
\* of ALL_PKGS
RECURSIVE write_all(_, _)
write_all(tables, payload) ==
    IF payload = {} THEN tables
    ELSE LET p == CHOOSE q \in payload : TRUE
             name == p.file.info.name
             installed == modify(tables.installed, name,
                                 write_db_func(p, get(tables.installed, name)))
             pkg == get(installed, name)
             all == IF is_some(pkg) THEN set(tables.all, name, unwrap(pkg)) ELSE tables.all
         IN  write_all([all |-> all, installed |-> installed], payload \ {p})

\* the entries of one name carry the same package file: they differ in
\* their flags only
same_file_per_name(payload) ==
    \A p, q \in payload : p.file.info.name = q.file.info.name => p.file = q.file

\* C37: the tables after a successful install run are a function of the
\* payload and the tables before the run: whatever the order in which the
\* downloads completed and write_db visited the entries, they are the tables
\* that writing the entries in one fixed order gives, also for a payload that
\* holds two entries of one name which differ in their flags.
C37_WriteBackOrderIndependent ==
    (pc = "done" /\ outcome = "ok" /\ packages # {} /\ same_file_per_name(packages)) =>
        Tables = write_all(start, packages)


\* C38: between commands (every store call having succeeded), a name whose
\* catalog record has local.installed different from False has an
\* installed-table entry with the same local.installed.
C38_CatalogMirrorsInstalled ==
    pc \in {"idle", "done"} =>
        \A n \in DOMAIN all_pkgs :
            all_pkgs[n].installed # False =>
                /\ n \in DOMAIN installed_pkgs
                /\ installed_pkgs[n].installed = all_pkgs[n].installed

\* after an install, an add of another definition and a remove of another
\* package: an installed name whose two records differ in the version of the
\* definition and agree on local.installed, next to a name that was removed
C38_Witness ==
    /\ pc = "done"
    /\ \E n \in DOMAIN all_pkgs :
          /\ all_pkgs[n].installed # False
          /\ n \in DOMAIN installed_pkgs
          /\ installed_pkgs[n].version # all_pkgs[n].version
          /\ installed_pkgs[n].installed = all_pkgs[n].installed
    /\ \E m \in DOMAIN all_pkgs :
          /\ all_pkgs[m].installed = False
          /\ m \in DOMAIN start.installed


\* the version of the definition a table records for n
version_in(table, n) == unwrap(get(table, n)).info.version

\* C39: when update comes to a name that is installed at version v, it adds
\* the package to the payload if the catalog record of the name has a version
\* greater than v, and adds nothing if it has not.
C39_UpdateSchedulesOutdated ==
    [][(pc = "update" /\ args # <<>> /\ Head(args) \in DOMAIN installed_pkgs
            /\ Head(args) \in DOMAIN all_pkgs
            /\ installed_in(installed_pkgs, Head(args)) # False) =>
           LET name == Head(args)
               v == installed_in(installed_pkgs, name).ver
           IN  IF version_in(all_pkgs, name) > v
               THEN name \in selected_names(packages')
               ELSE packages' = packages]_vars


\* C40: when remove comes to a name that has no catalog record, the command
\* fails there and the step changes neither table: the installed-table entry
\* of the name, if there is one, stays, and so does everything the command
\* committed for the names before it.
C40_RemoveUnknownFails ==
    [][(pc = "remove_modify" /\ Head(args) \notin DOMAIN all_pkgs) =>
           /\ pc' = "done"
           /\ outcome' \notin {"ok", "running"}
           /\ all_pkgs' = all_pkgs
           /\ installed_pkgs' = installed_pkgs]_vars

\* remove has failed on a name without a catalog record whose installed-table
\* entry is still there, after it had removed another name
C40_Witness ==
    /\ pc = "done" /\ outcome = "panic"
    /\ args # <<>>
    /\ Head(args) \notin DOMAIN all_pkgs
    /\ Head(args) \in DOMAIN installed_pkgs
    /\ \E n \in DOMAIN start.installed :
           /\ n \notin DOMAIN installed_pkgs
           /\ n \in DOMAIN all_pkgs /\ all_pkgs[n].installed = False

====
